---- MODULE Spec2Model ----
(***************************************************************************)
(* Smart traffic system: the road network with its congestion model        *)
(* (graph_manager.py), the router (routing_service.py), the tick loop that *)
(* moves vehicles (simulation_manager.py) and the HTTP handlers that       *)
(* mutate the shared state (main.py).                                      *)
(*                                                                         *)
(* Python floats are modelled as exact rationals <<n, d>> (d > 0, lowest   *)
(* terms); identifiers of intersections are strings without '-', so a road *)
(* id "u-v" is modelled by the pair <<u, v>> that str.split('-') yields.   *)
(* Every handler of main.py is an `async def` without an await inside, and *)
(* so is one iteration of simulation_loop up to its sleep: each is one     *)
(* atomic action.                                                          *)
(***************************************************************************)
EXTENDS Integers, Sequences, FiniteSets, TLC

(***************************************************************************)
(* Bounds of the model.                                                    *)
(***************************************************************************)
\* simulated seconds after which no further tick is explored
MaxTime == 50
\* traffic updates, route requests and reroute requests explored in one run
MaxRequests == 1

NodeIds == {"A", "B", "C"}
VehicleOrder == <<"v1", "v2">>
VehicleIds == {VehicleOrder[k] : k \in 1..Len(VehicleOrder)}
\* simulated_time_this_step = SIMULATION_TIME_MULTIPLIER * real_time_delta
TickSizes == {10, 20}
\* Optional[...] values: None is the empty tuple, a present value x is <<x>>
None == <<>>
Some(x) == <<x>>

(***************************************************************************)
(* Rational arithmetic standing for Python's float arithmetic.             *)
(***************************************************************************)
Abs(x) == IF x < 0 THEN -x ELSE x

RECURSIVE GCD(_, _)
GCD(a, b) == IF b = 0 THEN a ELSE GCD(b, a % b)

Rat(n, d) ==
    LET s == IF d < 0 THEN -1 ELSE 1
        g == GCD(Abs(n), Abs(d))
    IN  <<(s * n) \div g, (s * d) \div g>>

RInt(i) == <<i, 1>>
RAdd(x, y) == Rat(x[1] * y[2] + y[1] * x[2], x[2] * y[2])
RSub(x, y) == Rat(x[1] * y[2] - y[1] * x[2], x[2] * y[2])
RMul(x, y) == Rat(x[1] * y[1], x[2] * y[2])
RDiv(x, y) == Rat(x[1] * y[2], x[2] * y[1])
RLess(x, y) == x[1] * y[2] < y[1] * x[2]
RLeq(x, y) == x[1] * y[2] <= y[1] * x[2]
RMin(x, y) == IF RLess(y, x) THEN y ELSE x
RMax(x, y) == IF RLess(x, y) THEN y ELSE x

VARIABLES
    CITY_GRAPH,        \* graph_manager.CITY_GRAPH: [nodes, adj, attr]
    ROAD_DATA,         \* graph_manager.ROAD_DATA: road key -> dynamic record
    VEHICLES_DB,       \* main.VEHICLES_DB, the dict simulation_manager shares
    ACTIVE_VEHICLES,   \* routing_service.ACTIVE_VEHICLES: id -> (path, cost)
    SIMULATION_TIME,   \* simulation_manager.SIMULATION_TIME
    simulation_task,   \* simulation_manager.simulation_task
    stop_simulation,   \* simulation_manager._stop_simulation
    lastOp,            \* history: the request just handled, "none" after a loop step
    observed,          \* history: roads given a raw vehicle count since the load
    calls,             \* history: the requests counted against MaxRequests
    loop               \* where the coroutine simulation_loop stands

vars == <<CITY_GRAPH, ROAD_DATA, VEHICLES_DB, ACTIVE_VEHICLES, SIMULATION_TIME,
          simulation_task, stop_simulation, lastOp, observed, calls, loop>>

\* simulation_loop is suspended at asyncio.sleep (line 60), or has not started
Sleeping == [pc |-> "sleep", i |-> 0, dt |-> 0]

(***************************************************************************)
(* graph_manager.py                                                        *)
(***************************************************************************)
\* nx.DiGraph(): nodes, the edge keys in insertion order (the order in which
\* networkx iterates a node's successors), and the edge attributes.
EmptyGraph == [nodes |-> {}, adj |-> <<>>, attr |-> <<>>]

has_edge(G, key) == key \in DOMAIN G.attr

\* DiGraph.add_edge: creates missing end points, keeps the position of an edge
\* that is already there and overwrites its attributes.
add_edge(G, key, attrs) ==
    [nodes |-> G.nodes \cup {key[1], key[2]},
     adj   |-> IF has_edge(G, key) THEN G.adj ELSE Append(G.adj, key),
     attr  |-> (key :> attrs) @@ G.attr]

RECURSIVE LoadEdges(_, _, _, _)
LoadEdges(G, RD, edges, i) ==
    IF i > Len(edges) THEN [G |-> G, RD |-> RD]
    ELSE LET e == edges[i]
             key == <<e.source, e.target>>
         IN  LoadEdges(
                 add_edge(G, key, [base_travel_time |-> e.base_travel_time,
                                   current_travel_time |-> RInt(e.base_travel_time)]),
                 (key :> [base_travel_time |-> e.base_travel_time,
                          capacity |-> e.capacity,
                          current_congestion |-> RInt(0),
                          current_vehicles |-> 0]) @@ RD,
                 edges, i + 1)

\* load_map with the three clear() calls of lines 19-21 left out
load_map_without_clear(city_map) ==
    LET G0 == [CITY_GRAPH EXCEPT
                  !.nodes = @ \cup {city_map.nodes[i] : i \in 1..Len(city_map.nodes)}]
        r  == LoadEdges(G0, ROAD_DATA, city_map.edges, 1)
    IN  [ok |-> TRUE, G |-> r.G, RD |-> r.RD]

\* load_map: clears the three globals, adds the nodes, then the edges; it has
\* no failing path and returns True.
load_map(city_map) ==
    LET G0 == [EmptyGraph EXCEPT
                  !.nodes = {city_map.nodes[i] : i \in 1..Len(city_map.nodes)}]
        r  == LoadEdges(G0, <<>>, city_map.edges, 1)
    IN  [ok |-> TRUE, G |-> r.G, RD |-> r.RD]

\* the free share of the capacity in place of the used share
derived_congestion_free_share(vehicle_count, capacity) ==
    IF capacity > 0
    THEN RSub(RInt(1), RMax(RInt(0), RMin(RInt(1), Rat(2 * vehicle_count, 3 * capacity))))
    ELSE IF vehicle_count > 0 THEN RInt(1) ELSE RInt(0)

\* lines 188-192: the congestion derived from a vehicle count;
\* vehicle_count / (capacity * 1.5) is 2 * vehicle_count / (3 * capacity)
derived_congestion(vehicle_count, capacity) ==
    IF capacity > 0
    THEN RMin(RInt(1), Rat(2 * vehicle_count, 3 * capacity))
    ELSE IF vehicle_count > 0 THEN RInt(1) ELSE RInt(0)

\* an override stored as it is sent
unclamped_congestion(congestion_level) == congestion_level

\* line 183: max(0.0, min(1.0, congestion_level))
clamp_congestion(congestion_level) ==
    RMax(RInt(0), RMin(RInt(1), congestion_level))

\* lines 176-199 of update_traffic_on_road: the road is in the graph
update_known_road(G, RD, key, congestion_level, vehicle_count) ==
    LET RD0 == IF key \in DOMAIN RD THEN RD
               ELSE (key :> [base_travel_time |-> G.attr[key].base_travel_time,
                             capacity |-> 100,
                             current_congestion |-> RInt(0),
                             current_vehicles |-> 0]) @@ RD
        RD1 == IF congestion_level # None
               THEN [RD0 EXCEPT ![key].current_congestion =
                        clamp_congestion(congestion_level[1])]
               ELSE RD0
        RD2 == IF vehicle_count # None
               THEN [RD1 EXCEPT ![key].current_vehicles = vehicle_count[1],
                                ![key].current_congestion =
                                    derived_congestion(vehicle_count[1],
                                                       RD1[key].capacity)]
               ELSE RD1
        penalty_factor == RAdd(RInt(1), RMul(RInt(4), RD2[key].current_congestion))
        current_travel_time == RMul(RInt(RD2[key].base_travel_time), penalty_factor)
    IN  [ok |-> TRUE,
         G  |-> [G EXCEPT !.attr[key].current_travel_time = current_travel_time],
         RD |-> RD2]

\* an update that gives a road missing from the graph a record of its own
update_traffic_on_road_unchecked(G, RD, key, congestion_level, vehicle_count) ==
    IF ~has_edge(G, key)
    THEN [ok |-> TRUE, G |-> G,
          RD |-> (key :> [base_travel_time |-> 10,
                          capacity |-> 100,
                          current_congestion |-> RInt(0),
                          current_vehicles |-> 0]) @@ RD]
    ELSE update_known_road(G, RD, key, congestion_level, vehicle_count)

\* update_traffic_on_road(road_id_str, congestion_level, vehicle_count):
\* lines 173-175 turn away a road that is not in the graph
update_traffic_on_road(G, RD, key, congestion_level, vehicle_count) ==
    IF ~has_edge(G, key) THEN [ok |-> FALSE, G |-> G, RD |-> RD]
    ELSE update_known_road(G, RD, key, congestion_level, vehicle_count)

(***************************************************************************)
(* routing_service.py                                                      *)
(***************************************************************************)
Neighbours(G, v) == SelectSeq(G.adj, LAMBDA k : k[1] = v)

\* heap order of networkx's fringe entries (distance, push counter, node)
FringeBefore(a, b) == RLess(a[1], b[1]) \/ (a[1] = b[1] /\ a[2] < b[2])

RemoveAt(s, i) == SubSeq(s, 1, i - 1) \o SubSeq(s, i + 1, Len(s))

\* the loop over G_succ[v].items() of networkx's _dijkstra_multisource
RECURSIVE Relax(_, _, _, _, _)
Relax(G, st, v, nb, i) ==
    IF i > Len(nb) \/ st.err THEN st
    ELSE
    LET u == nb[i][2]
        vu_dist == RAdd(st.dist[v], G.attr[nb[i]].current_travel_time)
    IN  IF u \in DOMAIN st.dist
        THEN IF RLess(vu_dist, st.dist[u])
             THEN [st EXCEPT !.err = TRUE]
             ELSE Relax(G, st, v, nb, i + 1)
        ELSE IF u \notin DOMAIN st.seen \/ RLess(vu_dist, st.seen[u])
        THEN Relax(G, [st EXCEPT !.seen = (u :> vu_dist) @@ @,
                                 !.fringe = Append(@, <<vu_dist, st.c, u>>),
                                 !.c = @ + 1,
                                 !.paths = (u :> Append(st.paths[v], u)) @@ @],
                   v, nb, i + 1)
        ELSE Relax(G, st, v, nb, i + 1)

\* the `while fringe` loop of networkx's _dijkstra_multisource
RECURSIVE DijkstraLoop(_, _, _)
DijkstraLoop(G, st, target) ==
    IF st.fringe = <<>> \/ st.err THEN st
    ELSE
    LET f == st.fringe
        i == CHOOSE k \in 1..Len(f) :
                 \A j \in 1..Len(f) : j # k => FringeBefore(f[k], f[j])
        d == f[i][1]
        v == f[i][3]
        popped == [st EXCEPT !.fringe = RemoveAt(f, i)]
    IN  IF v \in DOMAIN st.dist THEN DijkstraLoop(G, popped, target)
        ELSE LET st1 == [popped EXCEPT !.dist = (v :> d) @@ @]
             IN  IF v = target THEN st1
                 ELSE DijkstraLoop(G, Relax(G, st1, v, Neighbours(G, v), 1), target)

dijkstra(G, source, target) ==
    DijkstraLoop(G, [dist |-> <<>>, seen |-> (source :> RInt(0)),
                     paths |-> (source :> <<source>>),
                     fringe |-> <<<<RInt(0), 0, source>>>>, c |-> 1,
                     err |-> FALSE], target)

\* find_fastest_path with weight='base_travel_time' in place of
\* weight='current_travel_time'
find_fastest_path_by_base_time(G, start_node_id, end_node_id) ==
    IF start_node_id \notin G.nodes \/ end_node_id \notin G.nodes
    THEN [kind |-> "None"]
    ELSE LET st == dijkstra(
                       [G EXCEPT !.attr = [key \in DOMAIN G.attr |->
                           [G.attr[key] EXCEPT !.current_travel_time =
                               RInt(G.attr[key].base_travel_time)]]],
                       start_node_id, end_node_id)
         IN  IF st.err THEN [kind |-> "raise"]
             ELSE IF end_node_id \notin DOMAIN st.dist THEN [kind |-> "None"]
             ELSE [kind |-> "ok", path |-> st.paths[end_node_id],
                   cost |-> st.dist[end_node_id]]

\* find_fastest_path: (path, cost), or None for an absent node and for
\* NetworkXNoPath alike; the ValueError networkx raises on contradictory
\* distances is not caught and propagates ("raise").
find_fastest_path(G, start_node_id, end_node_id) ==
    IF start_node_id \notin G.nodes \/ end_node_id \notin G.nodes
    THEN [kind |-> "None"]
    ELSE LET st == dijkstra(G, start_node_id, end_node_id)
         IN  IF st.err THEN [kind |-> "raise"]
             ELSE IF end_node_id \notin DOMAIN st.dist THEN [kind |-> "None"]
             ELSE [kind |-> "ok", path |-> st.paths[end_node_id],
                   cost |-> st.dist[end_node_id]]

(***************************************************************************)
(* graph_manager.update_road_vehicle_count and                             *)
(* routing_service.assign_route_to_vehicle are called by                   *)
(* simulation_manager.py but defined in no source file at hand: they are   *)
(* modelled from the specification's AdjustOccupancy (4.1) and AssignRoute *)
(* (4.3).                                                                  *)
(***************************************************************************)
\* 4.1 "Congestion derivation from vehicle count and capacity"
SpecCongestion(count, capacity) ==
    LET raw == IF capacity <= 0
               THEN (IF count > 0 THEN RInt(1) ELSE RInt(0))
               ELSE IF count <= capacity
               THEN RMul(Rat(3, 5), Rat(count, capacity))
               ELSE RAdd(Rat(3, 5),
                         RMul(Rat(2, 5),
                              RMin(RInt(1), Rat(2 * (count - capacity), capacity))))
    IN  RMax(RInt(0), RMin(RInt(1), raw))

\* the saturating penalty: base / (1 - 0.9 c) below 0.99, base * 20 from there
SaturatingTravelTime(base_time, congestion) ==
    IF RLess(congestion, Rat(99, 100))
    THEN RMul(RInt(base_time),
              RDiv(RInt(1), RSub(RInt(1), RMul(congestion, Rat(9, 10)))))
    ELSE RMul(RInt(base_time), RInt(20))

\* 4.1 AdjustOccupancy(segment, delta)
update_road_vehicle_count(G, RD, key, delta) ==
    IF ~has_edge(G, key) THEN [ok |-> FALSE, G |-> G, RD |-> RD]
    ELSE
    LET RD0 == IF key \in DOMAIN RD THEN RD
               ELSE (key :> [base_travel_time |-> G.attr[key].base_travel_time,
                             capacity |-> 100,
                             current_congestion |-> RInt(0),
                             current_vehicles |-> 0]) @@ RD
        count == IF RD0[key].current_vehicles + delta < 0 THEN 0
                 ELSE RD0[key].current_vehicles + delta
        congestion == SpecCongestion(count, RD0[key].capacity)
    IN  [ok |-> TRUE,
         G  |-> [G EXCEPT !.attr[key].current_travel_time =
                    SaturatingTravelTime(RD0[key].base_travel_time, congestion)],
         RD |-> [RD0 EXCEPT ![key].current_vehicles = count,
                            ![key].current_congestion = congestion]]

(***************************************************************************)
(* models.py                                                               *)
(***************************************************************************)
IDLE == "idle"
ON_ROUTE == "on_route"
ARRIVED == "arrived"

\* models.Vehicle with the defaults of its dynamic fields. start_node_id and
\* path_cost are written but never read and are left out.
NewVehicle(id, current_node_id, destination_node_id) ==
    [id |-> id,
     destination_node_id |-> destination_node_id,
     current_node_id |-> current_node_id,
     current_road_segment |-> None,
     time_on_current_segment |-> 0,
     current_path_index |-> 0,
     state |-> IDLE,
     current_path |-> None]

\* VEHICLES_DB is a dict: its items in insertion order
Tracked(DB) == {DB[i].id : i \in 1..Len(DB)}
IndexOf(DB, id) == CHOOSE i \in 1..Len(DB) : DB[i].id = id
VehicleOf(DB, id) == DB[IndexOf(DB, id)]

\* 4.3 AssignRoute(vehicle)
assign_route_to_vehicle(G, vehicle) ==
    LET r == find_fastest_path(G, vehicle.current_node_id, vehicle.destination_node_id)
    IN  IF r.kind = "raise" THEN [raised |-> TRUE, vehicle |-> vehicle]
        ELSE IF r.kind = "ok"
        THEN [raised |-> FALSE,
              vehicle |-> [vehicle EXCEPT
                  !.current_path = r.path,
                  !.current_path_index = 0,
                  !.time_on_current_segment = 0,
                  !.state = IF Len(r.path) = 1 THEN ARRIVED ELSE ON_ROUTE]]
        ELSE [raised |-> FALSE,
              vehicle |-> [vehicle EXCEPT
                  !.current_path = None,
                  !.current_path_index = 0,
                  !.time_on_current_segment = 0,
                  !.state = IDLE]]

(***************************************************************************)
(* simulation_manager.py                                                   *)
(***************************************************************************)
\* lines 98-108: the time the active segment requires
travel_time_for_segment(RD, key) ==
    IF key \in DOMAIN RD
    THEN LET base_time == RD[key].base_travel_time
             congestion == RD[key].current_congestion
             penalty_factor ==
                 IF RLess(congestion, Rat(99, 100))
                 THEN RDiv(RInt(1), RSub(RInt(1), RMul(congestion, Rat(9, 10))))
                 ELSE RInt(20)
         IN  RMul(RInt(base_time), penalty_factor)
    ELSE RInt(1000)

\* the completion test with the comparison turned round
SegmentCompletedEarly(time_on_current_segment, required) ==
    RLeq(RInt(time_on_current_segment), required)

\* line 116: the completion test
SegmentCompleted(time_on_current_segment, required) ==
    RLeq(required, RInt(time_on_current_segment))

\* the state after a completed segment with the alternative the comment of
\* line 138 names: idle while the vehicle waits at the intersection
StateAfterSegmentIdle(current_path_index, current_path) ==
    IF current_path_index >= Len(current_path) - 1 THEN ARRIVED ELSE IDLE

\* lines 129-139: the state after a completed segment
StateAfterSegment(current_path_index, current_path) ==
    IF current_path_index >= Len(current_path) - 1 THEN ARRIVED ELSE ON_ROUTE

\* lines 82-88: the first tick of the vehicle on the segment `key`
EnterSegment(G, RD, vehicle, key) ==
    IF vehicle.current_road_segment # key
    THEN LET left == IF vehicle.current_road_segment # None
                     THEN update_road_vehicle_count(G, RD, vehicle.current_road_segment, -1)
                     ELSE [G |-> G, RD |-> RD]
             entered == update_road_vehicle_count(left.G, left.RD, key, 1)
         IN  [G |-> entered.G, RD |-> entered.RD,
              vehicle |-> [vehicle EXCEPT !.current_road_segment = key,
                                          !.current_node_id = key[1]]]
    ELSE [G |-> G, RD |-> RD, vehicle |-> vehicle]

\* a completed segment after which the vehicle enters its next road at once
CompleteSegmentEnteringNext(G, RD, vehicle, key) ==
    LET out == update_road_vehicle_count(G, RD, key, -1)
        st == StateAfterSegment(vehicle.current_path_index + 1, vehicle.current_path)
        left == [vehicle EXCEPT
                    !.current_path_index = @ + 1,
                    !.current_node_id = IF st = ARRIVED THEN vehicle.destination_node_id
                                        ELSE key[2],
                    !.time_on_current_segment = 0,
                    !.current_road_segment = None,
                    !.state = st]
    IN  IF st = ARRIVED THEN [G |-> out.G, RD |-> out.RD, vehicle |-> left]
        ELSE EnterSegment(out.G, out.RD, left,
                          <<key[2], vehicle.current_path[vehicle.current_path_index + 3]>>)

\* lines 116-139: the vehicle has completed the segment `key`
CompleteSegment(G, RD, vehicle, key) ==
    LET out == update_road_vehicle_count(G, RD, key, -1)
        st == StateAfterSegment(vehicle.current_path_index + 1, vehicle.current_path)
    IN  [G |-> out.G, RD |-> out.RD,
         vehicle |-> [vehicle EXCEPT
             !.current_path_index = @ + 1,
             !.current_node_id = IF st = ARRIVED THEN vehicle.destination_node_id
                                 ELSE key[2],
             !.time_on_current_segment = 0,
             !.current_road_segment = None,
             !.state = st]]

\* lines 140-144: the index is already at (or past) the end of the path
FinishPath(G, RD, vehicle) ==
    LET out == IF vehicle.current_road_segment # None
               THEN update_road_vehicle_count(G, RD, vehicle.current_road_segment, -1)
               ELSE [G |-> G, RD |-> RD]
    IN  [G |-> out.G, RD |-> out.RD,
         vehicle |-> [vehicle EXCEPT !.state = ARRIVED,
                                     !.current_road_segment = None]]

\* lines 91-139: the required time of the segment the vehicle is on, the
\* completion test and what follows it
ProgressOnSegment(on, key) ==
    IF SegmentCompleted(on.vehicle.time_on_current_segment,
                        travel_time_for_segment(on.RD, key))
    THEN CompleteSegment(on.G, on.RD, on.vehicle, key)
    ELSE on

\* lines 77-79: current_road_key = (u, v) of the active segment
current_road_key(vehicle) ==
    <<vehicle.current_path[vehicle.current_path_index + 1],
      vehicle.current_path[vehicle.current_path_index + 2]>>

\* line 73: vehicle.time_on_current_segment += time_delta_simulated
AddTime(vehicle, dt) == [vehicle EXCEPT !.time_on_current_segment = @ + dt]

\* the body of the loop of update_vehicle_positions for one vehicle (lines 69-146)
AdvanceVehicle(G, RD, vehicle, dt) ==
    IF vehicle.state # ON_ROUTE \/ vehicle.current_path = None
    THEN [G |-> G, RD |-> RD, vehicle |-> vehicle]
    ELSE IF vehicle.current_path_index < Len(vehicle.current_path) - 1
    THEN ProgressOnSegment(
             EnterSegment(G, RD, AddTime(vehicle, dt), current_road_key(vehicle)),
             current_road_key(vehicle))
    ELSE FinishPath(G, RD, AddTime(vehicle, dt))

\* update_vehicle_positions: one pass over list(VEHICLES_DB.items())
RECURSIVE update_vehicle_positions(_, _, _, _, _)
\* the vehicle at position i has been advanced to r; on to the next one
NextVehicle(r, DB, dt, i) ==
    update_vehicle_positions(r.G, r.RD, [DB EXCEPT ![i] = r.vehicle], dt, i + 1)

update_vehicle_positions(G, RD, DB, dt, i) ==
    IF i > Len(DB) THEN [G |-> G, RD |-> RD, DB |-> DB]
    ELSE NextVehicle(AdvanceVehicle(G, RD, DB[i], dt), DB, dt, i)

\* a loop without the routing pass: no idle vehicle is given a route
RoutingPassSkipped(G, DB, i) == [raised |-> FALSE, DB |-> DB]

\* simulation_loop lines 49-52: the automatic routing pass; an exception of
\* the router leaves the loop (and ends the task) where it is raised.
RECURSIVE RoutingPass(_, _, _)
RoutingPass(G, DB, i) ==
    IF i > Len(DB) THEN [raised |-> FALSE, DB |-> DB]
    ELSE IF DB[i].state = IDLE /\ DB[i].destination_node_id # DB[i].current_node_id
    THEN LET r == assign_route_to_vehicle(G, DB[i])
         IN  IF r.raised THEN [raised |-> TRUE, DB |-> DB]
             ELSE RoutingPass(G, [DB EXCEPT ![i] = r.vehicle], i + 1)
    ELSE RoutingPass(G, DB, i + 1)

(***************************************************************************)
(* Inputs explored.                                                        *)
(***************************************************************************)
Edge(source, target, base_travel_time, capacity) ==
    [source |-> source, target |-> target,
     base_travel_time |-> base_travel_time, capacity |-> capacity]

\* A -> B -> C, base 10 and capacity 2 each
MapLine == [nodes |-> <<"A", "B", "C">>,
            edges |-> <<Edge("A", "B", 10, 2), Edge("B", "C", 10, 2)>>]
\* a direct road A -> C beside the detour over B
MapTriangle == [nodes |-> <<"A", "B", "C">>,
                edges |-> <<Edge("A", "B", 10, 1), Edge("A", "C", 5, 2),
                            Edge("B", "C", 10, 1)>>]
\* A and B joined both ways, and B -> C
MapCycle == [nodes |-> <<"A", "B", "C">>,
             edges |-> <<Edge("A", "B", 10, 1), Edge("B", "A", 10, 1),
                         Edge("B", "C", 10, 1)>>]
\* the node id "A" twice
MapDuplicateNode == [nodes |-> <<"A", "A", "B">>,
                     edges |-> <<Edge("A", "B", 10, 2)>>]
\* an edge to "C", which is not among the nodes
MapUnknownNode == [nodes |-> <<"A", "B">>,
                   edges |-> <<Edge("A", "B", 10, 2), Edge("B", "C", 10, 2)>>]

Maps == {MapLine, MapTriangle, MapCycle, MapDuplicateNode, MapUnknownNode}

\* TrafficUpdate: the road ("B-A" is a road of MapCycle alone) and the pair
\* (congestion_level, vehicle_count), both Optional and unvalidated
RoadIds == {<<"B", "C">>, <<"B", "A">>}
Observations == {<<Some(Rat(3, 2)), None>>, <<None, Some(-1)>>, <<None, Some(3)>>}
\* (current node, destination) of the vehicles added
Trips == {<<"A", "C">>, <<"C", "A">>, <<"B", "B">>}
\* (start, end) of the routes requested, and the node a reroute starts from
RouteTrips == {<<"A", "C">>, <<"C", "A">>}
RerouteNodes == {"A", "B"}

Init ==
    /\ CITY_GRAPH = EmptyGraph
    /\ ROAD_DATA = <<>>
    /\ VEHICLES_DB = <<>>
    /\ ACTIVE_VEHICLES = <<>>
    /\ SIMULATION_TIME = 0
    /\ simulation_task = "none"
    /\ stop_simulation = FALSE
    /\ lastOp = [op |-> "none"]
    /\ observed = {}
    /\ calls = 0
    /\ loop = Sleeping

(***************************************************************************)
(* main.py: the handlers                                                   *)
(***************************************************************************)
\* a load that replaces the network and keeps the vehicles
load_city_map_keeping_vehicles(city_map) ==
    /\ CITY_GRAPH' = load_map(city_map).G
    /\ ROAD_DATA' = load_map(city_map).RD
    /\ observed' = {}
    /\ lastOp' = [op |-> "load_map", city_map |-> city_map, ok |-> TRUE,
                  dropped |-> 0]
    /\ UNCHANGED <<loop, VEHICLES_DB, ACTIVE_VEHICLES, SIMULATION_TIME,
                   simulation_task, stop_simulation, calls>>

\* POST /map/load
load_city_map(city_map) ==
    LET r == load_map(city_map)
    IN  /\ CITY_GRAPH' = r.G
        /\ ROAD_DATA' = r.RD
        /\ ACTIVE_VEHICLES' = IF r.ok THEN <<>> ELSE ACTIVE_VEHICLES
        /\ VEHICLES_DB' = IF r.ok THEN <<>> ELSE VEHICLES_DB
        /\ observed' = {}
        /\ lastOp' = [op |-> "load_map", city_map |-> city_map, ok |-> r.ok,
                      dropped |-> Len(VEHICLES_DB)]
        /\ UNCHANGED <<loop, SIMULATION_TIME, simulation_task, stop_simulation, calls>>

\* PUT /traffic/update with one TrafficUpdate in the list
update_road_traffic(key, congestion_level, vehicle_count) ==
    LET r == update_traffic_on_road(CITY_GRAPH, ROAD_DATA, key,
                                    congestion_level, vehicle_count)
    IN  /\ CITY_GRAPH' = r.G
        /\ ROAD_DATA' = r.RD
        /\ observed' = IF r.ok /\ vehicle_count # None
                       THEN observed \cup {key} ELSE observed
        /\ lastOp' = [op |-> "update_traffic", ok |-> r.ok, key |-> key,
                      congestion_level |-> congestion_level,
                      vehicle_count |-> vehicle_count]
        /\ UNCHANGED <<loop, VEHICLES_DB, ACTIVE_VEHICLES, SIMULATION_TIME,
                       simulation_task, stop_simulation>>

\* routing_service.request_route_for_vehicle: the new ACTIVE_VEHICLES
StoreRoute(AV, vehicle_id, r) ==
    IF r.kind = "ok" THEN (vehicle_id :> r.path) @@ AV ELSE AV

\* lines 95-97, 124-126 and 174-177 of main.py: what a handler writes to a
\* tracked vehicle once the router has returned a route
ApplyRoute(vehicle, r) ==
    IF r.kind = "ok" THEN [vehicle EXCEPT !.current_path = r.path] ELSE vehicle

\* POST /routes/request for a vehicle id
request_new_route(vehicle_id, start_node_id, end_node_id) ==
    LET tracked == vehicle_id \in Tracked(VEHICLES_DB)
        i == IndexOf(VEHICLES_DB, vehicle_id)
        DB1 == IF tracked
               THEN [VEHICLES_DB EXCEPT ![i].current_node_id = start_node_id,
                                        ![i].destination_node_id = end_node_id]
               ELSE VEHICLES_DB
        r == find_fastest_path(CITY_GRAPH, start_node_id, end_node_id)
    IN  /\ ACTIVE_VEHICLES' = StoreRoute(ACTIVE_VEHICLES, vehicle_id, r)
        /\ VEHICLES_DB' = IF tracked
                          THEN [DB1 EXCEPT ![i] = ApplyRoute(DB1[i], r)]
                          ELSE DB1
        /\ lastOp' = [op |-> "request_route", result |-> r.kind]
        /\ UNCHANGED <<loop, CITY_GRAPH, ROAD_DATA, SIMULATION_TIME, simulation_task,
                       stop_simulation, observed>>

\* POST /routes/reroute/{vehicle_id}
reroute_vehicle(vehicle_id, current_node_id) ==
    LET tracked == vehicle_id \in Tracked(VEHICLES_DB)
        active == vehicle_id \in DOMAIN ACTIVE_VEHICLES
        i == IndexOf(VEHICLES_DB, vehicle_id)
        DB1 == IF tracked
               THEN [VEHICLES_DB EXCEPT ![i].current_node_id = current_node_id]
               ELSE VEHICLES_DB
        old == ACTIVE_VEHICLES[vehicle_id]
        r == IF active
             THEN find_fastest_path(CITY_GRAPH, current_node_id, old[Len(old)])
             ELSE [kind |-> "None"]
    IN  /\ ACTIVE_VEHICLES' = IF active
                              THEN StoreRoute(ACTIVE_VEHICLES, vehicle_id, r)
                              ELSE ACTIVE_VEHICLES
        /\ VEHICLES_DB' = IF tracked
                          THEN [DB1 EXCEPT ![i] = ApplyRoute(DB1[i], r)]
                          ELSE DB1
        /\ lastOp' = [op |-> "reroute",
                      result |-> IF tracked \/ active THEN r.kind ELSE "unknown"]
        /\ UNCHANGED <<loop, CITY_GRAPH, ROAD_DATA, SIMULATION_TIME, simulation_task,
                       stop_simulation, observed>>

\* POST /vehicles with a vehicle whose dynamic fields have their defaults
add_vehicle(vehicle_id, current_node_id, destination_node_id) ==
    LET exists == vehicle_id \in Tracked(VEHICLES_DB)
        vehicle == NewVehicle(vehicle_id, current_node_id, destination_node_id)
        r == find_fastest_path(CITY_GRAPH, current_node_id, destination_node_id)
    IN  /\ VEHICLES_DB' = IF exists THEN VEHICLES_DB
                          ELSE Append(VEHICLES_DB, ApplyRoute(vehicle, r))
        /\ ACTIVE_VEHICLES' = IF exists THEN ACTIVE_VEHICLES
                              ELSE StoreRoute(ACTIVE_VEHICLES, vehicle_id, r)
        /\ lastOp' = [op |-> "add_vehicle",
                      result |-> IF exists THEN "exists" ELSE r.kind]
        /\ UNCHANGED <<loop, CITY_GRAPH, ROAD_DATA, SIMULATION_TIME, simulation_task,
                       stop_simulation, observed>>

(***************************************************************************)
(* simulation_manager.py: the task                                         *)
(***************************************************************************)
start_simulation_task ==
    /\ IF simulation_task \in {"none", "done"}
       THEN simulation_task' = "running" /\ stop_simulation' = FALSE
       ELSE UNCHANGED <<simulation_task, stop_simulation>>
    /\ lastOp' = [op |-> "start_simulation"]
    /\ UNCHANGED <<loop, CITY_GRAPH, ROAD_DATA, VEHICLES_DB, ACTIVE_VEHICLES,
                   SIMULATION_TIME, observed, calls>>

stop_simulation_task ==
    /\ stop_simulation' = TRUE
    /\ lastOp' = [op |-> "none"]
    /\ UNCHANGED <<loop, CITY_GRAPH, ROAD_DATA, VEHICLES_DB, ACTIVE_VEHICLES,
                   SIMULATION_TIME, simulation_task, observed, calls>>

\* one iteration of the loop of simulation_loop, from the test of the flag to
\* the sleep: the clock, update_vehicle_positions, the routing pass
TickBody(dt) ==
    LET moved == update_vehicle_positions(CITY_GRAPH, ROAD_DATA, VEHICLES_DB, dt, 1)
        routed == RoutingPass(moved.G, moved.DB, 1)
    IN  /\ CITY_GRAPH' = moved.G
        /\ ROAD_DATA' = moved.RD
        /\ VEHICLES_DB' = routed.DB
        /\ simulation_task' = IF routed.raised THEN "done" ELSE simulation_task
        /\ lastOp' = [op |-> "none"]
        /\ UNCHANGED <<loop, ACTIVE_VEHICLES, stop_simulation, observed, calls>>

\* a loop that does not test its flag
TickClockIgnoringStop(dt) ==
    /\ simulation_task = "running"
    /\ SIMULATION_TIME + dt <= MaxTime
    /\ SIMULATION_TIME' = SIMULATION_TIME + dt

\* the loop is running, its flag is clear, and the clock moves on by dt
TickClock(dt) ==
    /\ simulation_task = "running"
    /\ ~stop_simulation
    /\ SIMULATION_TIME + dt <= MaxTime
    /\ SIMULATION_TIME' = SIMULATION_TIME + dt

Tick(dt) == TickClock(dt) /\ TickBody(dt)

\* the loop finds the flag set and returns
LoopExit ==
    /\ loop = Sleeping
    /\ simulation_task = "running"
    /\ stop_simulation
    /\ simulation_task' = "done"
    /\ lastOp' = [op |-> "none"]
    /\ UNCHANGED <<loop, CITY_GRAPH, ROAD_DATA, VEHICLES_DB, ACTIVE_VEHICLES,
                   SIMULATION_TIME, stop_simulation, observed, calls>>

LoadMapStep == \E m \in Maps : load_city_map(m)
UpdateTrafficStep ==
    /\ calls < MaxRequests
    /\ calls' = calls + 1
    /\ \E key \in RoadIds, o \in Observations : update_road_traffic(key, o[1], o[2])
RequestRouteStep ==
    /\ calls < MaxRequests
    /\ calls' = calls + 1
    /\ \E id \in VehicleIds, t \in RouteTrips : request_new_route(id, t[1], t[2])
RerouteStep ==
    /\ calls < MaxRequests
    /\ calls' = calls + 1
    /\ \E id \in VehicleIds, n \in RerouteNodes : reroute_vehicle(id, n)
\* vehicles are named in the order of VehicleOrder; a request may also repeat
\* the id of a tracked vehicle
AddVehicleStep ==
    /\ UNCHANGED calls
    /\ \E k \in 1..Len(VehicleOrder), t \in Trips :
          /\ k <= Len(VEHICLES_DB) + 1
          /\ add_vehicle(VehicleOrder[k], t[1], t[2])
TickStep == \E dt \in TickSizes : Tick(dt)

Next ==
    \/ LoadMapStep
    \/ UpdateTrafficStep
    \/ RequestRouteStep
    \/ RerouteStep
    \/ AddVehicleStep
    \/ start_simulation_task
    \/ TickStep

Spec == Init /\ [][Next]_vars

(***************************************************************************)
(* Properties.                                                             *)
(***************************************************************************)
Roads == NodeIds \X NodeIds
\* the number of vehicles whose current_road_segment is the road `key`
OnSegment(key) ==
    Cardinality({i \in 1..Len(VEHICLES_DB) :
                    VEHICLES_DB[i].current_road_segment = key})
\* the count ROAD_DATA holds for the road `key`
CountOf(key) ==
    IF key \in DOMAIN ROAD_DATA THEN ROAD_DATA[key].current_vehicles ELSE 0

\* C1: in every state and for every segment, the number of vehicles whose
\* current segment it is equals its current_vehicles, manual traffic updates
\* included.
C1_OccupancyAccounting ==
    \A key \in Roads : OnSegment(key) = CountOf(key)

\* the accounting of the tick alone: the number of vehicles on a segment
\* equals its current_vehicles for every segment that has been given no raw
\* vehicle count by a traffic update since the map was loaded
OccupancyAccountingUnobserved ==
    \A key \in Roads \ observed : OnSegment(key) = CountOf(key)

\* C2: every segment's current_travel_time is at least its base_travel_time
\* (so every edge weight is positive), in every reachable state.
C2_TravelTimeAtLeastBase ==
    \A key \in DOMAIN CITY_GRAPH.attr :
        /\ RLeq(RInt(CITY_GRAPH.attr[key].base_travel_time),
                CITY_GRAPH.attr[key].current_travel_time)
        /\ RLess(RInt(0), CITY_GRAPH.attr[key].current_travel_time)

\* the directed simple paths of G from s to e
PathsOf(G, s, e) ==
    {p \in UNION {[1..n -> G.nodes] : n \in 1..Cardinality(G.nodes)} :
        /\ p[1] = s
        /\ p[Len(p)] = e
        /\ \A i, j \in 1..Len(p) : i # j => p[i] # p[j]
        /\ \A i \in 1..(Len(p) - 1) : has_edge(G, <<p[i], p[i + 1]>>)}

RECURSIVE PathCost(_, _, _)
\* the sum of current_travel_time over the edges of p from position i on
PathCost(G, p, i) ==
    IF i >= Len(p) THEN RInt(0)
    ELSE RAdd(G.attr[<<p[i], p[i + 1]>>].current_travel_time, PathCost(G, p, i + 1))

\* C3: when both nodes exist and end is reachable from start,
\* find_fastest_path returns a directed path from start to end, with the sum
\* of the current travel times of its edges as cost, and no directed path
\* from start to end costs less.
C3_FastestPathIsMinimal ==
    \A s, e \in CITY_GRAPH.nodes :
        PathsOf(CITY_GRAPH, s, e) # {} =>
            LET r == find_fastest_path(CITY_GRAPH, s, e)
            IN  /\ r.kind = "ok"
                /\ r.path \in PathsOf(CITY_GRAPH, s, e)
                /\ r.cost = PathCost(CITY_GRAPH, r.path, 1)
                /\ \A p \in PathsOf(CITY_GRAPH, s, e) :
                       RLeq(r.cost, PathCost(CITY_GRAPH, p, 1))

AB == <<"A", "B">>
BC == <<"B", "C">>
\* the network of MapLine: A -> B -> C, base 10 and capacity 2 each
LineNetwork ==
    /\ CITY_GRAPH.nodes = {"A", "B", "C"}
    /\ DOMAIN ROAD_DATA = {AB, BC}
    /\ \A key \in {AB, BC} : /\ ROAD_DATA[key].base_travel_time = 10
                             /\ ROAD_DATA[key].capacity = 2
NoTraffic ==
    \A key \in DOMAIN ROAD_DATA :
        /\ ROAD_DATA[key].current_vehicles = 0
        /\ ROAD_DATA[key].current_congestion = RInt(0)
        /\ CITY_GRAPH.attr[key].current_travel_time =
               RInt(ROAD_DATA[key].base_travel_time)

EdgeKeys(city_map) ==
    {<<city_map.edges[i].source, city_map.edges[i].target>> :
        i \in 1..Len(city_map.edges)}

\* C6: right after a successful load_map the segments are exactly those of
\* the input, each with current_vehicles 0, current_congestion 0 and
\* current_travel_time equal to its base_travel_time.
C6_LoadMapResets ==
    (lastOp.op = "load_map" /\ lastOp.ok) =>
        /\ DOMAIN ROAD_DATA = EdgeKeys(lastOp.city_map)
        /\ DOMAIN CITY_GRAPH.attr = EdgeKeys(lastOp.city_map)
        /\ \A key \in DOMAIN ROAD_DATA :
               /\ ROAD_DATA[key].current_vehicles = 0
               /\ ROAD_DATA[key].current_congestion = RInt(0)
               /\ CITY_GRAPH.attr[key].base_travel_time =
                      ROAD_DATA[key].base_travel_time
               /\ CITY_GRAPH.attr[key].current_travel_time =
                      RInt(ROAD_DATA[key].base_travel_time)

\* MapLine is loaded after the simulation has run and a request was handled
C6_Witness ==
    /\ lastOp.op = "load_map"
    /\ lastOp.ok
    /\ lastOp.city_map = MapLine
    /\ calls > 0
    /\ SIMULATION_TIME >= 20

\* no node id twice, and every edge between nodes of the input
WellFormedMap(city_map) ==
    /\ \A i, j \in 1..Len(city_map.nodes) :
           i # j => city_map.nodes[i] # city_map.nodes[j]
    /\ \A i \in 1..Len(city_map.edges) :
           \E j, k \in 1..Len(city_map.nodes) :
               /\ city_map.edges[i].source = city_map.nodes[j]
               /\ city_map.edges[i].target = city_map.nodes[k]

\* C7: load_map never succeeds on an input with a duplicated node id or with
\* an edge between nodes that are not both among the input's nodes.
C7_InvalidMapRejected ==
    (lastOp.op = "load_map" /\ ~WellFormedMap(lastOp.city_map)) => ~lastOp.ok

\* C8: the outcome of find_fastest_path for an absent node differs from its
\* outcome for two present nodes without a directed path between them.
C8_ErrorsDistinguished ==
    \A s, e, s2, e2 \in NodeIds :
        ( /\ (s \notin CITY_GRAPH.nodes \/ e \notin CITY_GRAPH.nodes)
          /\ {s2, e2} \subseteq CITY_GRAPH.nodes
          /\ PathsOf(CITY_GRAPH, s2, e2) = {} )
        => find_fastest_path(CITY_GRAPH, s, e) # find_fastest_path(CITY_GRAPH, s2, e2)

\* C9: the state of a vehicle changes only from idle to on_route and from
\* on_route to arrived, except that a reroute request may set it to idle.
C9_StateTransitions ==
    [][\A id \in Tracked(VEHICLES_DB) \cap Tracked(VEHICLES_DB') :
           VehicleOf(VEHICLES_DB, id).state # VehicleOf(VEHICLES_DB', id).state =>
               \/ /\ VehicleOf(VEHICLES_DB, id).state = IDLE
                  /\ VehicleOf(VEHICLES_DB', id).state = ON_ROUTE
               \/ /\ VehicleOf(VEHICLES_DB, id).state = ON_ROUTE
                  /\ VehicleOf(VEHICLES_DB', id).state = ARRIVED
               \/ /\ VehicleOf(VEHICLES_DB', id).state = IDLE
                  /\ lastOp'.op = "reroute"]_vars

\* a vehicle has gone from idle over on_route to arrived
C9_Witness ==
    \E i \in 1..Len(VEHICLES_DB) :
        /\ VEHICLES_DB[i].state = ARRIVED
        /\ VEHICLES_DB[i].current_path_index >= 1

\* C10: the vehicle a creation request has routed has the returned path,
\* current_path_index 0, time_on_current_segment 0 and the state on_route, or
\* arrived when the path has length 1.
C10_AssignmentSetsRoute ==
    (lastOp.op = "add_vehicle" /\ lastOp.result = "ok") =>
        LET vehicle == VEHICLES_DB[Len(VEHICLES_DB)]
        IN  /\ vehicle.current_path # None
            /\ vehicle.current_path_index = 0
            /\ vehicle.time_on_current_segment = 0
            /\ vehicle.state = IF Len(vehicle.current_path) = 1
                               THEN ARRIVED ELSE ON_ROUTE

(***************************************************************************)
(* One trip: a single vehicle is assigned the path [A, B, C] at simulated  *)
(* time 0 on a network without other traffic, and the loop ticks on.       *)
(***************************************************************************)
\* (base_travel_time, capacity) of the two segments of the trip
TripSegments == {<<10, 2>>, <<8, 2>>, <<5, 1>>, <<5, 2>>}
TripMaps ==
    {[nodes |-> <<"A", "B", "C">>,
      edges |-> <<Edge("A", "B", x[1], x[2]), Edge("B", "C", y[1], y[2])>>] :
        x \in TripSegments, y \in TripSegments}
TripTickSizes == {5, 10}

InitTrip ==
    \E m \in TripMaps :
        /\ CITY_GRAPH = load_map(m).G
        /\ ROAD_DATA = load_map(m).RD
        /\ VEHICLES_DB =
               <<assign_route_to_vehicle(load_map(m).G,
                                         NewVehicle("v1", "A", "C")).vehicle>>
        /\ ACTIVE_VEHICLES = <<>>
        /\ SIMULATION_TIME = 0
        /\ simulation_task = "running"
        /\ stop_simulation = FALSE
        /\ lastOp = [op |-> "none"]
        /\ observed = {}
        /\ calls = 0
    /\ loop = Sleeping

TripTick == \E dt \in TripTickSizes : Tick(dt)

\* the loop sleeps a fixed interval and runs again: a tick that stays
\* possible is taken. TickBody is defined in every state, so a tick is
\* enabled exactly when its clock step is.
SpecTrip ==
    /\ InitTrip
    /\ [][TripTick]_vars
    /\ WF_SIMULATION_TIME(\E dt \in TripTickSizes : TickClock(dt))

\* the time the segment `key` requires of a vehicle that is alone on it
RequiredAlone(key) ==
    travel_time_for_segment(
        update_road_vehicle_count(
            CITY_GRAPH,
            [k \in DOMAIN ROAD_DATA |->
                [ROAD_DATA[k] EXCEPT !.current_vehicles = 0,
                                     !.current_congestion = RInt(0)]],
            key, 1).RD,
        key)

\* C5: the vehicle assigned [A, B, C] at time 0 is not arrived at any
\* simulated time below t1 + t2, the times its two segments require,
\* whatever the tick sizes, and it does arrive.
C5_ArrivalNotEarly ==
    /\ [](VEHICLES_DB[1].state = ARRIVED =>
             RLeq(RAdd(RequiredAlone(AB), RequiredAlone(BC)), RInt(SIMULATION_TIME)))
    /\ <>(VEHICLES_DB[1].state = ARRIVED)

\* the vehicle has arrived over both segments, by ticks of both sizes
C5_Witness ==
    /\ VEHICLES_DB[1].state = ARRIVED
    /\ VEHICLES_DB[1].current_path = <<"A", "B", "C">>
    /\ VEHICLES_DB[1].current_path_index = 2
    /\ VEHICLES_DB[1].current_node_id = "C"
    /\ SIMULATION_TIME % 10 = 5

\* the tracked vehicles a step has written to
Written(id) ==
    /\ id \in Tracked(VEHICLES_DB) \cap Tracked(VEHICLES_DB')
    /\ VehicleOf(VEHICLES_DB, id) # VehicleOf(VEHICLES_DB', id)

\* C11: a route request that finds no route leaves the vehicle it was made
\* for idle and without a path.
C11_FailedAssignmentClearsPath ==
    [][(lastOp'.op = "request_route" /\ lastOp'.result = "None") =>
          \A id \in VehicleIds :
              Written(id) =>
                  /\ VehicleOf(VEHICLES_DB', id).state = IDLE
                  /\ VehicleOf(VEHICLES_DB', id).current_path = None]_vars

\* C12: a reroute request for a vehicle that is on_route or arrived leaves it
\* idle with current_path_index 0, time_on_current_segment 0 and no
\* current_road_segment.
C12_RerouteResetsVehicle ==
    [][lastOp'.op = "reroute" =>
          \A id \in VehicleIds :
              (Written(id) /\ VehicleOf(VEHICLES_DB, id).state \in {ON_ROUTE, ARRIVED}) =>
                  /\ VehicleOf(VEHICLES_DB', id).state = IDLE
                  /\ VehicleOf(VEHICLES_DB', id).current_path_index = 0
                  /\ VehicleOf(VEHICLES_DB', id).time_on_current_segment = 0
                  /\ VehicleOf(VEHICLES_DB', id).current_road_segment = None]_vars

\* C13: the path of every vehicle that has one runs over existing
\* intersections along existing directed segments and ends at the vehicle's
\* destination.
C13_PathIsValid ==
    \A i \in 1..Len(VEHICLES_DB) :
        VEHICLES_DB[i].current_path # None =>
            LET path == VEHICLES_DB[i].current_path
            IN  /\ \A k \in 1..Len(path) : path[k] \in CITY_GRAPH.nodes
                /\ \A k \in 1..(Len(path) - 1) :
                       has_edge(CITY_GRAPH, <<path[k], path[k + 1]>>)
                /\ path[Len(path)] = VEHICLES_DB[i].destination_node_id

\* C14: every vehicle that has a path has
\* 0 <= current_path_index <= len(current_path) - 1.
C14_PathIndexInRange ==
    \A i \in 1..Len(VEHICLES_DB) :
        VEHICLES_DB[i].current_path # None =>
            /\ 0 <= VEHICLES_DB[i].current_path_index
            /\ VEHICLES_DB[i].current_path_index <= Len(VEHICLES_DB[i].current_path) - 1

\* C15: the current_congestion of every segment lies in [0, 1].
C15_CongestionInUnitInterval ==
    \A key \in DOMAIN ROAD_DATA :
        /\ RLeq(RInt(0), ROAD_DATA[key].current_congestion)
        /\ RLeq(ROAD_DATA[key].current_congestion, RInt(1))

\* C16: the current_vehicles of every segment is at least 0.
C16_CountNotNegative ==
    \A key \in DOMAIN ROAD_DATA : ROAD_DATA[key].current_vehicles >= 0

(***************************************************************************)
(* traffic_light_service.py: green times proportional to demand            *)
(***************************************************************************)
MIN_GREEN_TIME == 10
MAX_GREEN_TIME == 60
DEFAULT_CYCLE_TIME == 90

Min(a, b) == IF a < b THEN a ELSE b
Max(a, b) == IF a > b THEN a ELSE b

\* Python's int() of a float: truncation toward zero.  The float product
\* score / total * 90 has the integer part of the exact quotient for every
\* count the specifications below use (the two differ from a total of 45 on,
\* e.g. 13 / 45 * 90).
int(x) == IF x[1] >= 0 THEN x[1] \div x[2] ELSE -((-x[1]) \div x[2])

\* graph_manager.get_roads_entering_intersection: the in-edges of a node
get_roads_entering_intersection(G, intersection_id) ==
    IF intersection_id \notin G.nodes THEN <<>>
    ELSE SelectSeq(G.adj, LAMBDA k : k[2] = intersection_id)

\* f"{u}-{v}"
road_id_str(key) == key[1] \o "-" \o key[2]

\* lines 55-68: the demand score of one incoming road
demand_score(RD, key) ==
    IF key \in DOMAIN RD THEN RD[key].current_vehicles ELSE 0

\* lines 50-68: the loop that fills demand and total_demand_score
RECURSIVE CollectDemand(_, _, _)
CollectDemand(RD, incoming_roads, i) ==
    IF i = 0 THEN [demand |-> <<>>, total_demand_score |-> 0]
    ELSE [demand |-> (road_id_str(incoming_roads[i])
                        :> demand_score(RD, incoming_roads[i]))
                     @@ CollectDemand(RD, incoming_roads, i - 1).demand,
          total_demand_score |->
              CollectDemand(RD, incoming_roads, i - 1).total_demand_score
              + demand_score(RD, incoming_roads[i])]

\* a share that leaves the equal share of the cycle as it is
equal_green_unclamped(n) == DEFAULT_CYCLE_TIME \div n

\* lines 74 and 76: the equal share of the cycle when there is no demand
equal_green(n) ==
    Min(Max(MIN_GREEN_TIME, DEFAULT_CYCLE_TIME \div n), MAX_GREEN_TIME)

\* a share of the cycle that ignores the road's own score
proportional_green_of_total(score, total_demand_score) ==
    int(RMul(Rat(total_demand_score, total_demand_score),
             RInt(DEFAULT_CYCLE_TIME)))

\* lines 79-80: the share of the cycle in whole seconds
proportional_green(score, total_demand_score) ==
    int(RMul(Rat(score, total_demand_score), RInt(DEFAULT_CYCLE_TIME)))

\* line 81
clamp_green(green_time) == Max(MIN_GREEN_TIME, Min(green_time, MAX_GREEN_TIME))

\* lines 71-81: the timings from the demand collected
TimingsOf(d, n) ==
    IF d.total_demand_score = 0
    THEN [road \in DOMAIN d.demand |-> equal_green(n)]
    ELSE [road \in DOMAIN d.demand |->
              clamp_green(proportional_green(d.demand[road],
                                             d.total_demand_score))]

\* INTERSECTION_PHASES (lines 91-93) is written and never read: the cached
\* timings are not used by get_traffic_light_timings_for_intersection, whose
\* lines 108-112 recompute on every read.
calculate_adaptive_timings(G, RD, intersection_id) ==
    IF Len(get_roads_entering_intersection(G, intersection_id)) = 0 THEN <<>>
    ELSE TimingsOf(
           CollectDemand(RD, get_roads_entering_intersection(G, intersection_id),
                         Len(get_roads_entering_intersection(G, intersection_id))),
           Len(get_roads_entering_intersection(G, intersection_id)))

\* GET /traffic-lights/{intersection_id}: the timings returned (the handler
\* answers 404 when they are empty)
get_light_timings_for_intersection(intersection_id) ==
    /\ lastOp' = [op |-> "signal_timings", intersection_id |-> intersection_id,
                  timings |-> calculate_adaptive_timings(CITY_GRAPH, ROAD_DATA,
                                                         intersection_id)]
    /\ UNCHANGED <<loop, CITY_GRAPH, ROAD_DATA, VEHICLES_DB, ACTIVE_VEHICLES,
                   SIMULATION_TIME, simulation_task, stop_simulation,
                   observed, calls>>

(***************************************************************************)
(* Occupancy and signals: a junction whose roads are observed through      *)
(* PUT /traffic/update and whose timings are read                          *)
(***************************************************************************)
AC == <<"A", "C">>
\* A -> C (capacity 2) and B -> C (capacity 0) enter C, and C -> A leaves it
MapJunction == [nodes |-> <<"A", "B", "C">>,
                edges |-> <<Edge("A", "C", 10, 2), Edge("B", "C", 10, 0),
                            Edge("C", "A", 10, 3)>>]
SignalMaps == {MapJunction, MapLine}
SignalRoads == {AC, BC, AB}
SignalCounts == {-1, 0, 1, 3, 10, 30}
Intersections == {"A", "B", "C", "D"}

InitSignals ==
    /\ \E m \in SignalMaps :
          /\ CITY_GRAPH = load_map(m).G
          /\ ROAD_DATA = load_map(m).RD
          /\ lastOp = [op |-> "load_map", city_map |-> m, ok |-> TRUE,
                       dropped |-> 0]
    /\ VEHICLES_DB = <<>>
    /\ ACTIVE_VEHICLES = <<>>
    /\ SIMULATION_TIME = 0
    /\ simulation_task = "none"
    /\ stop_simulation = FALSE
    /\ observed = {}
    /\ calls = 0
    /\ loop = Sleeping

ObserveCountStep ==
    \E key \in SignalRoads, n \in SignalCounts :
        update_road_traffic(key, None, Some(n)) /\ UNCHANGED calls

SignalTimingsStep ==
    \E id \in Intersections : get_light_timings_for_intersection(id)

NextSignals ==
    \/ ObserveCountStep
    \/ SignalTimingsStep

SpecSignals == InitSignals /\ [][NextSignals]_vars

\* C17: for a fixed capacity the congestion derived from a vehicle count does
\* not decrease when the count grows: whenever a step leaves a road's count
\* equal or larger, the road's congestion is equal or larger.
C17_CongestionMonotone ==
    [][\A key \in DOMAIN ROAD_DATA \cap DOMAIN ROAD_DATA' :
          (/\ ROAD_DATA[key].capacity = ROAD_DATA'[key].capacity
           /\ ROAD_DATA[key].current_vehicles <= ROAD_DATA'[key].current_vehicles)
          => RLeq(ROAD_DATA[key].current_congestion,
                  ROAD_DATA'[key].current_congestion)]_vars

\* a road whose count was raised to 1 and whose derived congestion lies
\* strictly between 0 and 1
C17_Witness ==
    /\ lastOp.op = "update_traffic"
    /\ AC \in DOMAIN ROAD_DATA
    /\ ROAD_DATA[AC].current_vehicles = 1
    /\ RLess(RInt(0), ROAD_DATA[AC].current_congestion)
    /\ RLess(ROAD_DATA[AC].current_congestion, RInt(1))

\* the roads of the network that enter an intersection, and their occupancy
Incoming(id) == {key \in DOMAIN ROAD_DATA : key[2] = id}
RECURSIVE TotalOccupancy(_)
TotalOccupancy(S) ==
    IF S = {} THEN 0
    ELSE LET key == CHOOSE k \in S : TRUE
         IN  ROAD_DATA[key].current_vehicles + TotalOccupancy(S \ {key})

\* C18: every green time that a read of the signal timings returns, for any
\* intersection, incoming road and occupancy (total demand zero or not), lies
\* in [MIN_GREEN_TIME, MAX_GREEN_TIME] = [10, 60].
C18_GreenWithinBounds ==
    lastOp.op = "signal_timings" =>
        \A road \in DOMAIN lastOp.timings :
            /\ 10 <= lastOp.timings[road]
            /\ lastOp.timings[road] <= 60

\* a read at C with 30 vehicles on A -> C and none on B -> C: the share 90 is
\* cut to 60 and the share 0 is raised to 10
C18_Witness ==
    /\ lastOp.op = "signal_timings"
    /\ lastOp.intersection_id = "C"
    /\ Incoming("C") = {AC, BC}
    /\ ROAD_DATA[AC].current_vehicles = 30
    /\ ROAD_DATA[BC].current_vehicles = 0
    /\ lastOp.timings = ("A-C" :> 60 @@ "B-C" :> 10)

SuspendedInPass == loop.pc \in {"sleep", "advance", "route"}

\* the event loop may run a handler: simulation_loop is not running, or it is
\* suspended at asyncio.sleep
LoopSuspended == loop.pc = "sleep"

\* lines 30-46: the flag is tested, the clock advanced, and
\* update_vehicle_positions entered
LoopWake ==
    /\ loop = Sleeping
    /\ \E dt \in TickSizes :
          /\ TickClock(dt)
          /\ loop' = [pc |-> "advance", i |-> 1, dt |-> dt]
    /\ lastOp' = [op |-> "none"]
    /\ UNCHANGED <<CITY_GRAPH, ROAD_DATA, VEHICLES_DB, ACTIVE_VEHICLES,
                   simulation_task, stop_simulation, observed, calls>>

\* line 146 and the writes to the graph made for the vehicle at position i
StoreAdvanced(r, i) ==
    /\ CITY_GRAPH' = r.G
    /\ ROAD_DATA' = r.RD
    /\ VEHICLES_DB' = [VEHICLES_DB EXCEPT ![i] = r.vehicle]

\* update_vehicle_positions lines 68-146: one vehicle of the pass, or the
\* return to simulation_loop after the last one
LoopAdvance ==
    /\ loop.pc = "advance"
    /\ IF loop.i <= Len(VEHICLES_DB)
       THEN /\ StoreAdvanced(AdvanceVehicle(CITY_GRAPH, ROAD_DATA,
                                            VEHICLES_DB[loop.i], loop.dt), loop.i)
            /\ loop' = [loop EXCEPT !.i = @ + 1]
       ELSE /\ loop' = [pc |-> "route", i |-> 1, dt |-> 0]
            /\ UNCHANGED <<CITY_GRAPH, ROAD_DATA, VEHICLES_DB>>
    /\ lastOp' = [op |-> "none"]
    /\ UNCHANGED <<ACTIVE_VEHICLES, SIMULATION_TIME, simulation_task,
                   stop_simulation, observed, calls>>

\* line 52: the vehicle at position i is given a route, or the router raises
StoreRouted(r, i) ==
    IF r.raised
    THEN /\ simulation_task' = "done"
         /\ loop' = Sleeping
         /\ UNCHANGED VEHICLES_DB
    ELSE /\ VEHICLES_DB' = [VEHICLES_DB EXCEPT ![i] = r.vehicle]
         /\ loop' = [loop EXCEPT !.i = @ + 1]
         /\ UNCHANGED simulation_task

\* simulation_loop lines 49-60: one vehicle of the routing pass, or the sleep
\* after the last one
LoopRoute ==
    /\ loop.pc = "route"
    /\ IF loop.i > Len(VEHICLES_DB)
       THEN /\ loop' = Sleeping
            /\ UNCHANGED <<VEHICLES_DB, simulation_task>>
       ELSE IF /\ VEHICLES_DB[loop.i].state = IDLE
               /\ VEHICLES_DB[loop.i].destination_node_id
                      # VEHICLES_DB[loop.i].current_node_id
       THEN StoreRouted(assign_route_to_vehicle(CITY_GRAPH, VEHICLES_DB[loop.i]),
                        loop.i)
       ELSE /\ loop' = [loop EXCEPT !.i = @ + 1]
            /\ UNCHANGED <<VEHICLES_DB, simulation_task>>
    /\ lastOp' = [op |-> "none"]
    /\ UNCHANGED <<CITY_GRAPH, ROAD_DATA, ACTIVE_VEHICLES, SIMULATION_TIME,
                   stop_simulation, observed, calls>>

\* the requests the event loop serves while simulation_loop is suspended
LoopMaps == {MapLine, MapCycle}
LoopTrips == {<<"A", "C">>, <<"B", "C">>}
LoopLoadMapStep == LoopSuspended /\ \E m \in LoopMaps : load_city_map(m)
LoopUpdateTrafficStep == LoopSuspended /\ UpdateTrafficStep
LoopRequestRouteStep == LoopSuspended /\ RequestRouteStep
LoopRerouteStep == LoopSuspended /\ RerouteStep
LoopAddVehicleStep ==
    /\ LoopSuspended
    /\ UNCHANGED calls
    /\ \E k \in 1..Len(VehicleOrder), t \in LoopTrips :
          /\ k <= Len(VEHICLES_DB) + 1
          /\ add_vehicle(VehicleOrder[k], t[1], t[2])
LoopStartStep == LoopSuspended /\ start_simulation_task

NextLoop ==
    \/ LoopLoadMapStep
    \/ LoopUpdateTrafficStep
    \/ LoopRequestRouteStep
    \/ LoopRerouteStep
    \/ LoopAddVehicleStep
    \/ LoopStartStep
    \/ LoopWake
    \/ LoopAdvance
    \/ LoopRoute

SpecLoop == Init /\ [][NextLoop]_vars

\* C20: a tick's pass and the external operations exclude each other: from
\* the moment the pass has started until the loop sleeps again, every step
\* is a step of the pass, so no write of a map load, traffic update, route
\* request, reroute or vehicle creation falls between two occupancy updates
\* or between the advance pass and the routing pass of one tick.
C20_PassExcludesRequests ==
    [][loop.pc # "sleep" =>
          /\ loop' # loop
          /\ lastOp' = [op |-> "none"]
          /\ calls' = calls
          /\ Len(VEHICLES_DB') = Len(VEHICLES_DB)
          /\ DOMAIN ROAD_DATA' = DOMAIN ROAD_DATA
          /\ ACTIVE_VEHICLES' = ACTIVE_VEHICLES]_vars

\* the pass stands between two occupancy updates: the first of two vehicles
\* has entered its road, the second is still to be advanced
C20_Witness ==
    /\ loop.pc = "advance"
    /\ loop.i = 2
    /\ Len(VEHICLES_DB) = 2
    /\ VEHICLES_DB[1].current_road_segment # None
    /\ VEHICLES_DB[2].state = ON_ROUTE
    /\ VEHICLES_DB[2].current_road_segment = None

\* the roads a vehicle refers to: the segment it is on and the steps of its path
RoadsOf(vehicle) ==
    (IF vehicle.current_road_segment # None
     THEN {vehicle.current_road_segment} ELSE {})
    \cup {<<vehicle.current_path[k], vehicle.current_path[k + 1]>> :
            k \in 1..(Len(vehicle.current_path) - 1)}

\* C21: a map reload resets the topology, the occupancy and the vehicles
\* together: right after a load no vehicle is tracked and no route is stored,
\* and in every state of the loop, between the steps of a pass included, each
\* road a tracked vehicle refers to (its segment, the steps of its path) is a
\* road of the network now loaded.
C21_ReloadClearsVehicles ==
    /\ lastOp.op = "load_map" =>
          /\ VEHICLES_DB = <<>>
          /\ ACTIVE_VEHICLES = <<>>
          /\ \A key \in DOMAIN ROAD_DATA : ROAD_DATA[key].current_vehicles = 0
    /\ \A i \in 1..Len(VEHICLES_DB) :
          \A key \in RoadsOf(VEHICLES_DB[i]) :
              key \in DOMAIN ROAD_DATA /\ has_edge(CITY_GRAPH, key)

\* a load that arrived while the loop was running and two vehicles were tracked
C21_Witness ==
    /\ lastOp.op = "load_map"
    /\ lastOp.dropped = 2
    /\ simulation_task = "running"
    /\ SIMULATION_TIME > 0
    /\ VEHICLES_DB = <<>>

(***************************************************************************)
(* Cancellation: the loop step by step, started and stopped                *)
(***************************************************************************)
InitStop ==
    /\ CITY_GRAPH = load_map(MapLine).G
    /\ ROAD_DATA = load_map(MapLine).RD
    /\ lastOp = [op |-> "load_map", city_map |-> MapLine, ok |-> TRUE,
                 dropped |-> 0]
    /\ VEHICLES_DB = <<>>
    /\ ACTIVE_VEHICLES = <<>>
    /\ SIMULATION_TIME = 0
    /\ simulation_task = "none"
    /\ stop_simulation = FALSE
    /\ observed = {}
    /\ calls = 0
    /\ loop = Sleeping

\* stop_simulation_task is a plain function: whoever calls it runs on the
\* event loop while simulation_loop is suspended
LoopStopStep == LoopSuspended /\ stop_simulation_task

NextStop ==
    \/ LoopAddVehicleStep
    \/ LoopStartStep
    \/ LoopStopStep
    \/ LoopWake
    \/ LoopAdvance
    \/ LoopRoute
    \/ LoopExit

\* the event loop resumes a coroutine whose sleep is over
SpecStop == InitStop /\ [][NextStop]_vars /\ WF_vars(LoopExit)

\* C22: once the stop signal is raised for a running loop, the loop starts no
\* further pass (the clock does not move and no vehicle is advanced), and it
\* terminates at its next test of the flag.
C22_StopEndsLoop ==
    /\ [][(stop_simulation /\ simulation_task = "running") =>
              /\ loop' = Sleeping
              /\ SIMULATION_TIME' = SIMULATION_TIME
              /\ VEHICLES_DB' = VEHICLES_DB \/ lastOp'.op = "add_vehicle"]_vars
    /\ (stop_simulation /\ simulation_task = "running")
           ~> (simulation_task = "done")

\* a loop that has advanced vehicles was stopped and has returned
C22_Witness ==
    /\ simulation_task = "done"
    /\ stop_simulation
    /\ SIMULATION_TIME > 0
    /\ \E i \in 1..Len(VEHICLES_DB) : VEHICLES_DB[i].state = ON_ROUTE

(***************************************************************************)
(* Vehicles as posted.  POST /vehicles takes a whole Vehicle (models.py     *)
(* 36-50): the dynamic fields are the client's, checked for their type     *)
(* alone.                                                                  *)
(***************************************************************************)
\* main.add_vehicle for the Vehicle of the request body
post_vehicle(vehicle) ==
    LET exists == vehicle.id \in Tracked(VEHICLES_DB)
        r == find_fastest_path(CITY_GRAPH, vehicle.current_node_id,
                               vehicle.destination_node_id)
    IN  /\ VEHICLES_DB' = IF exists THEN VEHICLES_DB
                          ELSE Append(VEHICLES_DB, ApplyRoute(vehicle, r))
        /\ ACTIVE_VEHICLES' = IF exists THEN ACTIVE_VEHICLES
                              ELSE StoreRoute(ACTIVE_VEHICLES, vehicle.id, r)
        /\ lastOp' = [op |-> "add_vehicle",
                      result |-> IF exists THEN "exists" ELSE r.kind]
        /\ UNCHANGED <<loop, CITY_GRAPH, ROAD_DATA, SIMULATION_TIME,
                       simulation_task, stop_simulation, observed, calls>>

\* the bodies posted: a vehicle with the defaults, one sent as on_route with
\* the path index -4, and one sent as on_route on a road C -> A that the
\* network does not have
PostedVehicles(id) ==
    {NewVehicle(id, "A", "C"),
     [NewVehicle(id, "A", "C") EXCEPT !.state = ON_ROUTE,
                                      !.current_path_index = -4],
     [NewVehicle(id, "C", "A") EXCEPT !.state = ON_ROUTE,
                                      !.current_path = <<"C", "A">>]}

\* lines 76-78: current_path[current_path_index] raises IndexError when the
\* index lies below -len(current_path)
RaisesIndexError(vehicle) ==
    /\ vehicle.state = ON_ROUTE
    /\ vehicle.current_path # None
    /\ vehicle.current_path_index < -Len(vehicle.current_path)

\* the positions of the vehicles at which the pass raises
Raising(DB) == {i \in 1..Len(DB) : RaisesIndexError(DB[i])}

\* the first k - 1 vehicles were advanced to `moved`; the vehicle at k has
\* its time added (line 73) and raises; the exception leaves
\* update_vehicle_positions and simulation_loop, and the task is done
StoreAborted(moved, k, dt) ==
    /\ CITY_GRAPH' = moved.G
    /\ ROAD_DATA' = moved.RD
    /\ VEHICLES_DB' = moved.DB \o <<AddTime(VEHICLES_DB[k], dt)>>
                               \o SubSeq(VEHICLES_DB, k + 1, Len(VEHICLES_DB))
    /\ simulation_task' = "done"

AbortedPass(k, dt) ==
    /\ StoreAborted(update_vehicle_positions(CITY_GRAPH, ROAD_DATA,
                                             SubSeq(VEHICLES_DB, 1, k - 1), dt, 1),
                    k, dt)
    /\ lastOp' = [op |-> "none"]
    /\ UNCHANGED <<loop, ACTIVE_VEHICLES, stop_simulation, observed, calls>>

\* one iteration of simulation_loop over vehicles as posted
PostedTick(dt) ==
    /\ TickClock(dt)
    /\ IF Raising(VEHICLES_DB) = {}
       THEN TickBody(dt)
       ELSE AbortedPass(CHOOSE k \in Raising(VEHICLES_DB) :
                            \A j \in Raising(VEHICLES_DB) : k <= j, dt)

PostVehicleStep ==
    \E k \in 1..Len(VehicleOrder) :
        /\ k <= Len(VEHICLES_DB) + 1
        /\ \E vehicle \in PostedVehicles(VehicleOrder[k]) : post_vehicle(vehicle)

PostedTickStep == \E dt \in TickSizes : PostedTick(dt)

NextPosted ==
    \/ PostVehicleStep
    \/ start_simulation_task
    \/ PostedTickStep

SpecPosted == InitStop /\ [][NextPosted]_vars

\* C23: a vehicle whose processing fails in a tick does not keep the others
\* from being processed: in every tick, each on_route vehicle that has a path
\* and does not itself fail is advanced (its record is written).
C23_FailureIsolated ==
    [][SIMULATION_TIME' # SIMULATION_TIME =>
          \A j \in 1..Len(VEHICLES_DB) :
              (/\ VEHICLES_DB[j].state = ON_ROUTE
               /\ VEHICLES_DB[j].current_path # None
               /\ ~RaisesIndexError(VEHICLES_DB[j]))
              => VEHICLES_DB'[j] # VEHICLES_DB[j]]_vars

\* the same with the failures the code recovers from: a vehicle on a road
\* that is missing from the network is given the default time, and every
\* on_route vehicle is advanced in a tick in which no vehicle raises
UnknownRoadIsolated ==
    [][(SIMULATION_TIME' # SIMULATION_TIME /\ Raising(VEHICLES_DB) = {}) =>
          \A j \in 1..Len(VEHICLES_DB) :
              (VEHICLES_DB[j].state = ON_ROUTE /\ VEHICLES_DB[j].current_path # None)
              => VEHICLES_DB'[j] # VEHICLES_DB[j]]_vars

(***************************************************************************)
(* Traffic updates: congestion overrides and raw counts on the roads of a  *)
(* loaded map, roads the map does not have included                        *)
(***************************************************************************)
OverrideLevels == {Rat(-1, 2), RInt(0), Rat(1, 2), RInt(1), Rat(3, 2)}
OverrideCounts == {0, 1, 3}

OverrideStep ==
    \E key \in SignalRoads, level \in OverrideLevels :
        update_road_traffic(key, Some(level), None) /\ UNCHANGED calls

CountStep ==
    \E key \in SignalRoads, n \in OverrideCounts :
        update_road_traffic(key, None, Some(n)) /\ UNCHANGED calls

NextOverride ==
    \/ OverrideStep
    \/ CountStep

SpecOverride == InitSignals /\ [][NextOverride]_vars

\* everything the network holds for one road
RoadState(G, RD, key) == <<RD[key], G.attr[key]>>

\* C24: a congestion override on a road of the network sets that road's
\* current_congestion to the level clamped to [0, 1], moves its
\* current_travel_time with the congestion (up when the congestion rises,
\* down when it falls, unchanged when it stays), and leaves the road's
\* current_vehicles and everything held for every other road unchanged.
C24_OverrideFrame ==
    [][(/\ lastOp'.op = "update_traffic"
        /\ lastOp'.ok
        /\ lastOp'.congestion_level # None
        /\ lastOp'.vehicle_count = None) =>
          LET key == lastOp'.key
              level == lastOp'.congestion_level[1]
              c0 == ROAD_DATA[key].current_congestion
              c1 == ROAD_DATA'[key].current_congestion
              t0 == CITY_GRAPH.attr[key].current_travel_time
              t1 == CITY_GRAPH'.attr[key].current_travel_time
          IN  /\ c1 = (IF RLess(level, RInt(0)) THEN RInt(0)
                       ELSE IF RLess(RInt(1), level) THEN RInt(1) ELSE level)
              /\ RLess(c0, c1) => RLess(t0, t1)
              /\ RLess(c1, c0) => RLess(t1, t0)
              /\ c1 = c0 => t1 = t0
              /\ ROAD_DATA'[key].current_vehicles = ROAD_DATA[key].current_vehicles
              /\ ROAD_DATA'[key].capacity = ROAD_DATA[key].capacity
              /\ ROAD_DATA'[key].base_travel_time = ROAD_DATA[key].base_travel_time
              /\ DOMAIN ROAD_DATA' = DOMAIN ROAD_DATA
              /\ DOMAIN CITY_GRAPH'.attr = DOMAIN CITY_GRAPH.attr
              /\ CITY_GRAPH'.nodes = CITY_GRAPH.nodes
              /\ \A other \in DOMAIN ROAD_DATA \ {key} :
                     RoadState(CITY_GRAPH', ROAD_DATA', other)
                         = RoadState(CITY_GRAPH, ROAD_DATA, other)]_vars

\* the override 3/2 on B -> C, which holds 3 vehicles: the congestion is 1
\* and the count is still 3
C24_Witness ==
    /\ lastOp.op = "update_traffic"
    /\ lastOp.ok
    /\ lastOp.key = BC
    /\ lastOp.congestion_level = Some(Rat(3, 2))
    /\ lastOp.vehicle_count = None
    /\ ROAD_DATA[BC].current_congestion = RInt(1)
    /\ ROAD_DATA[BC].current_vehicles = 3

\* C25: a traffic update (count or congestion) for a road that the topology
\* does not have fails and leaves the network as it was: the set of roads and
\* every road's count, congestion and travel time.
C25_UnknownRoadRejected ==
    [][(lastOp'.op = "update_traffic" /\ ~has_edge(CITY_GRAPH, lastOp'.key)) =>
          /\ ~lastOp'.ok
          /\ CITY_GRAPH' = CITY_GRAPH
          /\ ROAD_DATA' = ROAD_DATA]_vars

\* an update for A -> B has failed on the junction map, which has no such
\* road, after B -> C was given 3 vehicles
C25_Witness ==
    /\ lastOp.op = "update_traffic"
    /\ ~lastOp.ok
    /\ lastOp.key = AB
    /\ ~has_edge(CITY_GRAPH, AB)
    /\ AB \notin DOMAIN ROAD_DATA
    /\ ROAD_DATA[BC].current_vehicles = 3

\* C26: every segment's stored current_travel_time, the weight the router and
\* the snapshot read, is the saturating penalty of its current congestion c:
\* base_travel_time / (1 - 0.9 c) for c < 0.99 and base_travel_time * 20
\* otherwise.
C26_StoredTimeSaturating ==
    \A key \in DOMAIN CITY_GRAPH.attr \cap DOMAIN ROAD_DATA :
        CITY_GRAPH.attr[key].current_travel_time =
            SaturatingTravelTime(ROAD_DATA[key].base_travel_time,
                                 ROAD_DATA[key].current_congestion)

\* the congestion of C27 for a count and a capacity
ClaimedCongestion(count, capacity) ==
    IF capacity <= 0 THEN (IF count > 0 THEN RInt(1) ELSE RInt(0))
    ELSE IF count <= capacity THEN RMul(Rat(3, 5), Rat(count, capacity))
    ELSE RAdd(Rat(3, 5),
              RMul(Rat(2, 5), RMin(RInt(1), Rat(2 * (count - capacity), capacity))))

\* C27: the congestion derived from a vehicle count and a capacity is 1 or 0
\* (count > 0 or not) for a capacity <= 0, 0.6 * count / capacity up to the
\* capacity, and 0.6 + 0.4 * min(1, (count - capacity) / (0.5 * capacity))
\* above it: after every update that gives a road a vehicle count, the
\* road's congestion is that value.
C27_DerivedCongestion ==
    (lastOp.op = "update_traffic" /\ lastOp.ok /\ lastOp.vehicle_count # None) =>
        ROAD_DATA[lastOp.key].current_congestion =
            ClaimedCongestion(lastOp.vehicle_count[1], ROAD_DATA[lastOp.key].capacity)

\* C28: the time a tick requires of a vehicle on its active segment is the
\* segment's current_travel_time in the graph, the edge weight of
\* find_fastest_path and the time the snapshot reports: for every on_route
\* vehicle on a segment the two are equal.
C28_RequiredTimeIsEdgeWeight ==
    \A i \in 1..Len(VEHICLES_DB) :
        (/\ VEHICLES_DB[i].state = ON_ROUTE
         /\ VEHICLES_DB[i].current_road_segment # None
         /\ has_edge(CITY_GRAPH, VEHICLES_DB[i].current_road_segment)) =>
            travel_time_for_segment(ROAD_DATA, VEHICLES_DB[i].current_road_segment)
                = CITY_GRAPH.attr[VEHICLES_DB[i].current_road_segment].current_travel_time

\* C29: in one tick a vehicle crosses at most one segment boundary: its
\* current_path_index stays or grows by one, whatever the tick size, and a
\* vehicle that has completed a segment short of the end of its path is on no
\* segment after the tick (it enters the next one on a later tick).
C29_OneBoundaryPerTick ==
    [][SIMULATION_TIME' # SIMULATION_TIME =>
          /\ Len(VEHICLES_DB') = Len(VEHICLES_DB)
          /\ \A i \in 1..Len(VEHICLES_DB) :
                /\ VEHICLES_DB'[i].current_path_index
                       \in {VEHICLES_DB[i].current_path_index,
                            VEHICLES_DB[i].current_path_index + 1}
                /\ VEHICLES_DB'[i].current_path_index
                       = VEHICLES_DB[i].current_path_index + 1
                   => /\ VEHICLES_DB'[i].current_road_segment = None
                      /\ VEHICLES_DB'[i].time_on_current_segment = 0]_vars

\* a vehicle has completed the first of the two segments of its path and is
\* on_route at the intersection, on no segment
C29_Witness ==
    /\ lastOp.op = "none"
    /\ SIMULATION_TIME >= 40
    /\ \E i \in 1..Len(VEHICLES_DB) :
          /\ VEHICLES_DB[i].state = ON_ROUTE
          /\ Len(VEHICLES_DB[i].current_path) = 3
          /\ VEHICLES_DB[i].current_path_index = 1
          /\ VEHICLES_DB[i].current_road_segment = None
          /\ VEHICLES_DB[i].time_on_current_segment = 0

\* C30: a vehicle that a tick has put in the state arrived is at its
\* destination and on no segment, whichever branch of the tick did it.
C30_ArrivedAtDestination ==
    [][SIMULATION_TIME' # SIMULATION_TIME =>
          \A i \in 1..Len(VEHICLES_DB) :
              (VEHICLES_DB[i].state # ARRIVED /\ VEHICLES_DB'[i].state = ARRIVED) =>
                  /\ VEHICLES_DB'[i].current_node_id
                         = VEHICLES_DB'[i].destination_node_id
                  /\ VEHICLES_DB'[i].current_road_segment = None]_vars

(***************************************************************************)
(* Progress: vehicles are added before the loop is started, and from the   *)
(* start on nothing but the loop runs                                      *)
(***************************************************************************)
\* (base_travel_time, capacity) of the roads: two vehicles on one road need
\* at most 5 / (1 - 0.9 * 0.6), so that a trip over two roads ends before
\* MaxTime
ProgressSegments == {<<5, 2>>, <<4, 3>>}
ProgressMaps ==
    {[nodes |-> <<"A", "B", "C">>,
      edges |-> <<Edge("A", "B", x[1], x[2]), Edge("B", "C", y[1], y[2])>>] :
        x \in ProgressSegments, y \in ProgressSegments}
\* (current node, destination): C is reached from A and from B, A from
\* nowhere, and a vehicle for B at B has nowhere to go
ProgressTrips == {<<"A", "C">>, <<"B", "C">>, <<"C", "A">>, <<"B", "B">>}

InitProgress ==
    /\ \E m \in ProgressMaps :
          /\ CITY_GRAPH = load_map(m).G
          /\ ROAD_DATA = load_map(m).RD
    /\ VEHICLES_DB = <<>>
    /\ ACTIVE_VEHICLES = <<>>
    /\ SIMULATION_TIME = 0
    /\ simulation_task = "none"
    /\ stop_simulation = FALSE
    /\ lastOp = [op |-> "none"]
    /\ observed = {}
    /\ calls = 0
    /\ loop = Sleeping

\* POST /vehicles before the simulation is started
ProgressAddStep ==
    /\ simulation_task = "none"
    /\ UNCHANGED calls
    /\ \E t \in ProgressTrips :
          /\ Len(VEHICLES_DB) < Len(VehicleOrder)
          /\ add_vehicle(VehicleOrder[Len(VEHICLES_DB) + 1], t[1], t[2])

ProgressStartStep == simulation_task = "none" /\ start_simulation_task

ProgressTickStep == \E dt \in TripTickSizes : Tick(dt)

NextProgress ==
    \/ ProgressAddStep
    \/ ProgressStartStep
    \/ ProgressTickStep

\* the loop sleeps a fixed interval and runs again: a tick that stays
\* possible is taken
SpecProgress ==
    /\ InitProgress
    /\ [][NextProgress]_vars
    /\ WF_SIMULATION_TIME(\E dt \in TripTickSizes : TickClock(dt))

\* the loop runs, and the vehicle at position i is idle away from a
\* destination that a directed path of the network reaches
IdleAndRoutable(i) ==
    /\ i <= Len(VEHICLES_DB)
    /\ simulation_task = "running"
    /\ ~stop_simulation
    /\ VEHICLES_DB[i].state = IDLE
    /\ VEHICLES_DB[i].destination_node_id # VEHICLES_DB[i].current_node_id
    /\ PathsOf(CITY_GRAPH, VEHICLES_DB[i].current_node_id,
               VEHICLES_DB[i].destination_node_id) # {}

InState(i, state) == i <= Len(VEHICLES_DB) /\ VEHICLES_DB[i].state = state

C32_StartAfterStopRuns ==
    /\ [][(simulation_task' = "running"
             /\ (simulation_task # "running" \/ (stop_simulation /\ ~stop_simulation')))
          => simulation_task # "running"]_vars
    /\ [](lastOp.op = "start_simulation"
             => simulation_task = "running" /\ ~stop_simulation)
====
